---------------------------- MODULE Spec2Model ----------------------------
(***************************************************************************)
(* The rate-limiting engine of AMCEF (src/src/utils/ratelimits): bucket    *)
(* guards (BucketBase.__call__ / handle_request), the Redis-backed sliding *)
(* window and cooldown flag (RedisBucketBase) and the two key providers    *)
(* (IPRedisBucket, MemberRedisBucket).                                     *)
(*                                                                         *)
(* Time is the wall clock in whole seconds (time() with an integer-second  *)
(* clock).  Every awaited Redis command is one atomic step of the request  *)
(* that issues it; requests interleave at those steps and with the clock.  *)
(***************************************************************************)
EXTENDS Integers, Sequences, FiniteSets, TLC

VARIABLES
    now,        \* time(): the wall clock, in seconds
    redis,      \* the Redis keyspace: key string -> typed value
    buckets,    \* the bucket instances, in construction order
    route,      \* the decorator chain of the endpoint, outermost guard first
    req,        \* per worker: the request it is serving and its position
    calls,      \* number of requests that have arrived so far
    cdTrig,     \* history: redis cooldown key -> time start_cooldown last ran
    win,        \* history: redis interaction key -> the calls since it was fresh
    replicas,   \* per server process: its _bucket_counter and the buckets it made
    posts,      \* the posts table of the database: id -> row
    lookup      \* per worker: the lookup_post call it is running

vars == <<now, redis, buckets, route, req, calls, cdTrig, win, replicas, posts, lookup>>

-----------------------------------------------------------------------------
(* Bounds of the model *)

MaxTime == 2         \* last clock value of the concurrent specifications
MaxCalls == 3        \* requests that arrive in a concurrent behaviour
SeqMaxTime == 13     \* last clock value of the sequential specification
SeqMaxCalls == 5     \* requests that arrive in a sequential behaviour
MaxRequests == 2     \* largest `requests` of a drawn bucket definition

(* Two workers serve requests concurrently *)
Procs == {1, 2}

-----------------------------------------------------------------------------
(* Values *)

None == "None"                 \* Python's None, as a reply of the client

(* Python truthiness of a reply of redis.get: None and "" are falsy *)
Truthy(v) == v # None /\ v # ""
NoResponse == [status |-> 0, headers |-> <<>>]

(* A worker that runs no lookup_post.  stage is the awaited call it issues *)
(* next, fetches the HTTP requests it has made, found the result returned  *)
(* (empty for None) and failure the exception raised.                      *)
NoLookup == [stage |-> "idle", post_id |-> 0, fetched |-> <<>>, fetches |-> 0,
             found |-> <<>>, failure |-> ""]

Max(a, b) == IF a >= b THEN a ELSE b

RECURSIVE SumOver(_, _)
SumOver(f, S) ==
    IF S = {} THEN 0
    ELSE LET x == CHOOSE y \in S : TRUE
         IN  f[x] + SumOver(f, S \ {x})

SetMax(S) == CHOOSE x \in S : \A y \in S : y <= x

-----------------------------------------------------------------------------
(* The Redis commands the buckets use.  A string value is                  *)
(* [type |-> "string", val, exp] with exp the absolute expiry, or -1 when  *)
(* the key has none; a sorted set is [type |-> "zset", members] with       *)
(* members a bag score -> number of members (each member a fresh uuid4).   *)
(* The client decodes replies (decode_responses=True): get returns a str.  *)

Del(r, k) == [x \in DOMAIN r \ {k} |-> r[x]]

Put(r, k, v) == [x \in DOMAIN r \cup {k} |-> IF x = k THEN v ELSE r[x]]

REDIS_get(r, k) == IF k \in DOMAIN r THEN r[k].val ELSE None

REDIS_ttl(r, k, t) ==
    IF k \notin DOMAIN r THEN -2
    ELSE IF r[k].exp = -1 THEN -1
    ELSE r[k].exp - t

REDIS_set(r, k, v) == Put(r, k, [type |-> "string", val |-> ToString(v), exp |-> -1])

REDIS_expireat(r, k, ts, t) ==
    IF k \notin DOMAIN r THEN r
    ELSE IF ts <= t THEN Del(r, k)
    ELSE [r EXCEPT ![k].exp = ts]

(* Faulty variant: only the members of the lowest score in range are removed *)
REDIS_zremrangebyscore_lowest(r, k, min, max) ==
    IF k \notin DOMAIN r THEN r
    ELSE LET m    == r[k].members
             hit  == {s \in DOMAIN m : min <= s /\ s <= max}
             keep == {s \in DOMAIN m : \E x \in hit : x < s} \cup (DOMAIN m \ hit)
         IN  IF keep = {} THEN Del(r, k)
             ELSE [r EXCEPT ![k].members = [s \in keep |-> m[s]]]

(* Faulty variant: the upper bound of the range is exclusive *)
REDIS_zremrangebyscore_exclusive(r, k, min, max) ==
    IF k \notin DOMAIN r THEN r
    ELSE LET m    == r[k].members
             keep == {s \in DOMAIN m : ~(min <= s /\ s < max)}
         IN  IF keep = {} THEN Del(r, k)
             ELSE [r EXCEPT ![k].members = [s \in keep |-> m[s]]]

REDIS_zremrangebyscore(r, k, min, max) ==
    IF k \notin DOMAIN r THEN r
    ELSE LET m    == r[k].members
             keep == {s \in DOMAIN m : ~(min <= s /\ s <= max)}
         IN  IF keep = {} THEN Del(r, k)
             ELSE [r EXCEPT ![k].members = [s \in keep |-> m[s]]]

REDIS_zcard(r, k) ==
    IF k \notin DOMAIN r THEN 0
    ELSE SumOver(r[k].members, DOMAIN r[k].members)

REDIS_zadd(r, k, score) ==
    LET m == IF k \in DOMAIN r THEN r[k].members ELSE <<>>
        n == IF score \in DOMAIN m THEN m[score] ELSE 0
    IN  Put(r, k, [type |-> "zset",
                   members |-> [s \in DOMAIN m \cup {score} |->
                                   IF s = score THEN n + 1 ELSE m[s]]])

(* zrange(key, 0, 0, desc=True, withscores=True): the member of highest score *)
REDIS_zrange_top(r, k) ==
    IF k \notin DOMAIN r THEN <<>>
    ELSE << <<"uuid", SetMax(DOMAIN r[k].members)>> >>

(* Redis drops a key once the clock reaches its expiry *)
Expire(r, t) ==
    LET live == {k \in DOMAIN r :
                    ~(r[k].type = "string" /\ r[k].exp # -1 /\ r[k].exp <= t)}
    IN  [k \in live |-> r[k]]

-----------------------------------------------------------------------------
(* Bucket instances *)

(* BucketBase.__init__: the instance takes the next number of the class-wide *)
(* counter _bucket_counter = itertools.count(0).                            *)
BucketBase_init(cls, requests, time_period, cooldown, counter) ==
    [cls |-> cls, requests |-> requests, time_period |-> time_period,
     cooldown |-> cooldown, bucket_no |-> counter, redis |-> None]

(* f"{bucket_key}": an int key prints in decimal, a str key as itself *)
FormatKey(b, bucket_key) ==
    IF b.cls = "MemberRedisBucket" THEN ToString(bucket_key) ELSE bucket_key

(* Faulty variant: the key leaves the bucket number out *)
get_redis_key_shared(b, bucket_key, name) ==
    "bucket-" \o FormatKey(b, bucket_key) \o "-" \o name

(* RedisBucketBase.get_redis_key *)
get_redis_key(b, bucket_key, name) ==
    "bucket-" \o ToString(b.bucket_no) \o "-" \o FormatKey(b, bucket_key) \o "-" \o name

(* Faulty variant: a request without client address shares one key *)
IP_get_bucket_key_anonymous(request) ==
    IF request.client = <<>> THEN [raised |-> FALSE, key |-> "?"]
    ELSE LET host == request.client[1]
         IN  IF Len(host) # 2 THEN [raised |-> TRUE, key |-> None]
             ELSE [raised |-> FALSE, key |-> host[1]]

(* IPRedisBucket.get_bucket_key: request.client is None or Address(host, port); *)
(* `host_address, _ = request.client.host` unpacks the host string itself, *)
(* which raises ValueError unless the string has exactly two characters.   *)
IP_get_bucket_key(request) ==
    IF request.client = <<>> THEN [raised |-> TRUE, key |-> None]
    ELSE LET host == request.client[1]
         IN  IF Len(host) # 2 THEN [raised |-> TRUE, key |-> None]
             ELSE [raised |-> FALSE, key |-> host[1]]

(* MemberRedisBucket.get_bucket_key *)
Member_get_bucket_key(request) ==
    IF "user_id" \notin DOMAIN request.state THEN [raised |-> TRUE, key |-> None]
    ELSE [raised |-> FALSE, key |-> request.state.user_id]

get_bucket_key(b, request) ==
    IF b.cls = "IPRedisBucket" THEN IP_get_bucket_key(request)
    ELSE Member_get_bucket_key(request)

(* RedisBucketBase.pre_call: the store handle is taken on the first call *)
pre_call(bs, i, request) ==
    IF bs[i].redis = None THEN [bs EXCEPT ![i].redis = request.state.redis_pool]
    ELSE bs

(* BucketBase.add_cooldown_headers and its override in IPRedisBucket *)
add_cooldown_headers(b, headers, remaining_seconds) ==
    IF b.cls = "IPRedisBucket"
    THEN Append(headers, <<"Ip-Cooldown-Reset", ToString(remaining_seconds)>>)
    ELSE Append(headers, <<"Cooldown-Reset", ToString(remaining_seconds)>>)

(* The four appends of BucketBase.add_headers *)
quota_headers(b, headers, remaining_interactions, time_until_reset) ==
    headers \o << <<"Requests-Limit", ToString(b.requests)>>,
                  <<"Requests-Period", ToString(b.time_period)>>,
                  <<"Requests-Reminding", ToString(remaining_interactions)>>,
                  <<"Requests-Reset", ToString(time_until_reset)>> >>

(* Faulty variant: the last second of a cooldown is not honoured *)
on_cooldown_late(cooldown_remaining) == cooldown_remaining > 1

(* handle_request, line 58: the request is refused while on cooldown *)
on_cooldown(cooldown_remaining) == cooldown_remaining > 0

(* Faulty variant: off by one, a full window still admits a request *)
exhausted_strict(remaining_requests) == remaining_requests < 0

(* handle_request, line 66: no request is left in the window *)
exhausted(remaining_requests) == remaining_requests <= 0

(* Faulty variant: the record is scored with the time of the call *)
interaction_score_now(b, t) == t

(* record_interaction, line 212: the score of the new record *)
interaction_score(b, t) == t + b.time_period

(* Faulty variants: the flag expires with the window, or a second early *)
cooldown_expiry_window(b, t) == t + b.time_period
cooldown_expiry_short(b, t) == t + b.cooldown - 1

(* start_cooldown, line 218: int(time() + self.cooldown) *)
cooldown_expiry(b, t) == t + b.cooldown

(* Faulty variant: the difference is returned as it is *)
get_reset_time_unclamped(newest_uuid, t) ==
    IF newest_uuid = <<>> THEN 0
    ELSE newest_uuid[1][2] - t

(* RedisBucketBase.get_reset_time, from the reply of zrange *)
get_reset_time(newest_uuid, t) ==
    IF newest_uuid = <<>> THEN 0
    ELSE Max(0, newest_uuid[1][2] - t)

-----------------------------------------------------------------------------
(* A worker's state.  pc names the Redis command the request issues next;  *)
(* site tells the two callers of get_cooldown (handle_request line 57 and  *)
(* line 73) and of get_remaining_requests (handle_request, add_headers)    *)
(* apart; depth is the guard of the chain whose code is running; cd0 is    *)
(* cooldown_remaining as read at line 57, rem is the last reply of         *)
(* get_remaining_requests and rem0 the one of line 65 (-1 before), exc     *)
(* the OnCooldownError caught.  reads and writes are the Redis keys the    *)
(* request has read and issued write commands on, recorded the guards (by  *)
(* depth) whose record_interaction it ran; arr, t0, idx, first and pre are *)
(* history (see Arrival).                                                  *)

Idle ==
    [request |-> [client |-> <<>>, state |-> <<>>], pc |-> "idle", site |-> "",
     depth |-> 0, keys |-> <<>>, rem |-> 0, rem0 |-> -1, response |-> NoResponse,
     handler |-> 0, error |-> "", exc |-> 0, rejectedBy |-> 0,
     reads |-> {}, writes |-> {}, recorded |-> {}, arr |-> 0,
     cd0 |-> 0, t0 |-> 0, idx |-> 0, first |-> 0,
     pre |-> [active |-> 0, stored |-> 0, cd |-> FALSE, trig |-> -1]]

Bucket(p) == buckets[route[req[p].depth]]
Key(p) == req[p].keys[req[p].depth]
RKey(p, name) == get_redis_key(Bucket(p), Key(p), name)

(* Faulty variant: IPRedisBucket does not override add_headers *)
ReturnTo_all(s, d) ==
    IF d = 0 THEN [s EXCEPT !.pc = "done", !.depth = 0]
    ELSE [s EXCEPT !.pc = "zrem", !.site = "headers", !.depth = d]

(* The response of the guard at depth d + 1 (or of the handler) comes back to *)
(* caller at depth d, line 100: add_headers runs next.  IPRedisBucket's     *)
(* add_headers is empty, so its caller returns the response at once.         *)
RECURSIVE ReturnTo(_, _)
ReturnTo(s, d) ==
    IF d = 0 THEN [s EXCEPT !.pc = "done", !.depth = 0]
    ELSE IF buckets[route[d]].cls = "IPRedisBucket" THEN ReturnTo(s, d - 1)
    ELSE [s EXCEPT !.pc = "zrem", !.site = "headers", !.depth = d]

(* Faulty variants: the except branch also invokes the handler, or the    *)
(* exception is swallowed and the else branch calls func.                  *)
Reject_invoking(s, d, remaining) ==
    ReturnTo([s EXCEPT !.response =
                           [status |-> 429,
                            headers |-> add_cooldown_headers(buckets[route[d]], <<>>, remaining)],
                       !.exc = remaining, !.rejectedBy = d, !.handler = @ + 1],
             d - 1)
Reject_fallthrough(s, d, remaining) ==
    [s EXCEPT !.exc = remaining, !.rejectedBy = d, !.pc = "call", !.depth = d]

(* caller, lines 96-98 and 102: OnCooldownError becomes a 429 response *)
Reject(s, d, remaining) ==
    ReturnTo([s EXCEPT !.response =
                           [status |-> 429,
                            headers |-> add_cooldown_headers(buckets[route[d]], <<>>, remaining)],
                       !.exc = remaining, !.rejectedBy = d],
             d - 1)

(* caller, lines 90-95, of the guard at depth d: an exception of the key   *)
(* provider is not caught by any caller of the chain.                      *)
EnterGuard(s, d) ==
    LET r == get_bucket_key(buckets[route[d]], s.request)
    IN  IF r.raised
        THEN [s EXCEPT !.pc = "done", !.error = "ValueError", !.depth = 0]
        ELSE [s EXCEPT !.pc = "cd_get", !.site = "handle", !.depth = d,
                       !.keys = Append(@, r.key)]

-----------------------------------------------------------------------------
(* Initial states: the buckets are constructed at import, in order, and the *)
(* store is empty.                                                          *)

InitWith(bs, r) ==
    /\ now = 0
    /\ redis = <<>>
    /\ buckets = bs
    /\ route = r
    /\ req = [p \in Procs |-> Idle]
    /\ calls = 0
    /\ cdTrig = <<>>
    /\ win = <<>>
    /\ replicas = <<>>
    /\ posts = <<>>
    /\ lookup = [p \in Procs |-> NoLookup]

-----------------------------------------------------------------------------
(* The steps of BucketBase.__call__.caller *)

(* The unexpired interaction records stored under key k at time t *)
ActiveAt(r, k, t) ==
    IF k \notin DOMAIN r THEN 0
    ELSE SumOver(r[k].members, {x \in DOMAIN r[k].members : x > t})

(* History of an arriving request: its arrival time and, in the logged     *)
(* specifications, for a request whose outermost key resolves, what the    *)
(* store held for the key and the number of the call since the key was     *)
(* last fresh (no record, no cooldown flag), with the arrival times of the *)
(* latest call for the key (last) and of the one before it (prev, or -1).  *)
Arrival(s, logged) ==
    LET b  == buckets[route[1]]
        r  == get_bucket_key(b, s.request)
        ki == get_redis_key(b, r.key, "interaction")
        kc == get_redis_key(b, r.key, "cooldown")
        fresh == ki \notin DOMAIN redis /\ kc \notin DOMAIN redis
        prev == IF ki \in DOMAIN win THEN win[ki].last ELSE -1
        w  == IF fresh \/ ki \notin DOMAIN win
              THEN [first |-> now, n |-> 1, prev |-> prev, last |-> now]
              ELSE [win[ki] EXCEPT !.n = @ + 1, !.prev = prev, !.last = now]
    IN  IF ~logged \/ r.raised THEN [s |-> [s EXCEPT !.t0 = now], win |-> win]
        ELSE [s |-> [s EXCEPT !.t0 = now, !.idx = w.n, !.first = w.first,
                              !.pre = [active |-> ActiveAt(redis, ki, now),
                                       stored |-> REDIS_zcard(redis, ki),
                                       cd |-> kc \in DOMAIN redis,
                                       trig |-> IF kc \in DOMAIN cdTrig
                                                THEN cdTrig[kc] ELSE -1]],
              win |-> [x \in DOMAIN win \cup {ki} |-> IF x = ki THEN w ELSE win[x]]]

(* A request reaches the outermost caller (lines 86-92).  Workers are     *)
(* interchangeable: the request is given to the first idle one.           *)
Arrive(p, r, limit, logged) ==
    /\ req[p].pc = "idle"
    /\ \A q \in Procs : q < p => req[q].pc # "idle"
    /\ calls < limit
    /\ calls' = calls + 1
    /\ buckets' = pre_call(buckets, route[1], r)
    /\ LET a == Arrival([Idle EXCEPT !.request = r, !.arr = calls + 1], logged)
       IN  /\ req' = [req EXCEPT ![p] = EnterGuard(a.s, 1)]
           /\ win' = a.win
    /\ UNCHANGED <<now, redis, route, cdTrig, replicas, posts, lookup>>

(* get_cooldown, line 223: redis.get; a falsy reply returns 0 *)
GetCooldown_get(p) ==
    /\ req[p].pc = "cd_get"
    /\ LET k == RKey(p, "cooldown")
           s == [req[p] EXCEPT !.reads = @ \cup {k}]
       IN  req' = [req EXCEPT ![p] =
                      IF Truthy(REDIS_get(redis, k)) THEN [s EXCEPT !.pc = "cd_ttl"]
                      ELSE IF s.site = "handle" THEN [s EXCEPT !.pc = "zrem"]
                      ELSE Reject(s, s.depth, 0)]
    /\ UNCHANGED <<now, redis, buckets, route, calls, cdTrig, win, replicas, posts, lookup>>

(* get_cooldown, line 226: redis.ttl; then handle_request line 58 or 74 *)
GetCooldown_ttl(p) ==
    /\ req[p].pc = "cd_ttl"
    /\ LET k == RKey(p, "cooldown")
           cooldown_remaining == REDIS_ttl(redis, k, now)
           s == [req[p] EXCEPT !.reads = @ \cup {k}]
       IN  req' = [req EXCEPT ![p] =
                      IF s.site = "handle" /\ on_cooldown(cooldown_remaining)
                      THEN Reject([s EXCEPT !.cd0 = cooldown_remaining],
                                  s.depth, cooldown_remaining)
                      ELSE IF s.site = "handle"
                      THEN [s EXCEPT !.pc = "zrem", !.cd0 = cooldown_remaining]
                      ELSE Reject(s, s.depth, cooldown_remaining)]
    /\ UNCHANGED <<now, redis, buckets, route, calls, cdTrig, win, replicas, posts, lookup>>

(* get_remaining_requests, line 202: zremrangebyscore(key, max=time(), min=0) *)
GetRemainingRequests_zrem(p) ==
    /\ req[p].pc = "zrem"
    /\ LET k == RKey(p, "interaction")
       IN  /\ redis' = REDIS_zremrangebyscore(redis, k, 0, now)
           /\ req' = [req EXCEPT ![p].pc = "zcard", ![p].writes = @ \cup {k}]
    /\ UNCHANGED <<now, buckets, route, calls, cdTrig, win, replicas, posts, lookup>>

(* get_remaining_requests, lines 205-206: zcard; then handle_request line 66 *)
(* or add_headers line 109                                                  *)
GetRemainingRequests_zcard(p) ==
    /\ req[p].pc = "zcard"
    /\ LET k == RKey(p, "interaction")
           interactions == REDIS_zcard(redis, k)
           remaining == Bucket(p).requests - interactions
           s == [req[p] EXCEPT !.reads = @ \cup {k}, !.rem = remaining]
       IN  req' = [req EXCEPT ![p] =
                      IF s.site = "headers" THEN [s EXCEPT !.pc = "zrange"]
                      ELSE IF exhausted(remaining)
                      THEN [s EXCEPT !.pc = "cd_set", !.rem0 = remaining]
                      ELSE [s EXCEPT !.pc = "zadd", !.rem0 = remaining]]
    /\ UNCHANGED <<now, redis, buckets, route, calls, cdTrig, win, replicas, posts, lookup>>

(* start_cooldown, line 217: redis.set(key, 1) *)
StartCooldown_set(p) ==
    /\ req[p].pc = "cd_set"
    /\ LET k == RKey(p, "cooldown")
       IN  /\ redis' = REDIS_set(redis, k, 1)
           /\ req' = [req EXCEPT ![p].pc = "cd_expireat", ![p].writes = @ \cup {k}]
    /\ UNCHANGED <<now, buckets, route, calls, cdTrig, win, replicas, posts, lookup>>

(* start_cooldown, line 218: redis.expireat(key, int(time() + cooldown)) *)
StartCooldown_expireat(p, logged) ==
    /\ req[p].pc = "cd_expireat"
    /\ LET k == RKey(p, "cooldown")
       IN  /\ redis' = REDIS_expireat(redis, k, cooldown_expiry(Bucket(p), now), now)
           /\ cdTrig' = IF ~logged THEN cdTrig ELSE
                         [x \in DOMAIN cdTrig \cup {k} |-> IF x = k THEN now ELSE cdTrig[x]]
           /\ req' = [req EXCEPT ![p].pc = "cd_get", ![p].site = "trigger",
                                 ![p].writes = @ \cup {k}]
    /\ UNCHANGED <<now, buckets, route, calls, win, replicas, posts, lookup>>

(* Faulty variant: the window is counted again with the insert, and a     *)
(* full window sends the request to start_cooldown.                        *)
RecordInteraction_checked(p) ==
    /\ req[p].pc = "zadd"
    /\ LET k == RKey(p, "interaction")
       IN  IF REDIS_zcard(redis, k) >= Bucket(p).requests
           THEN /\ redis' = redis
                /\ req' = [req EXCEPT ![p].pc = "cd_set"]
           ELSE /\ redis' = REDIS_zadd(redis, k, interaction_score(Bucket(p), now))
                /\ req' = [req EXCEPT ![p].pc = "call", ![p].writes = @ \cup {k},
                                      ![p].recorded = @ \cup {req[p].depth}]
    /\ UNCHANGED <<now, buckets, route, calls, cdTrig, win, replicas, posts, lookup>>

(* record_interaction, line 212: zadd(key, {uuid4: time() + time_period}) *)
RecordInteraction(p) ==
    /\ req[p].pc = "zadd"
    /\ LET k == RKey(p, "interaction")
       IN  /\ redis' = REDIS_zadd(redis, k, interaction_score(Bucket(p), now))
           /\ req' = [req EXCEPT ![p].pc = "call", ![p].writes = @ \cup {k},
                                 ![p].recorded = @ \cup {req[p].depth}]
    /\ UNCHANGED <<now, buckets, route, calls, cdTrig, win, replicas, posts, lookup>>

(* caller, line 100: func is the next guard's caller, or the route handler *)
CallFunc(p) ==
    /\ req[p].pc = "call"
    /\ IF req[p].depth < Len(route)
       THEN /\ buckets' = pre_call(buckets, route[req[p].depth + 1], req[p].request)
            /\ req' = [req EXCEPT ![p] = EnterGuard(req[p], req[p].depth + 1)]
       ELSE /\ buckets' = buckets
            /\ req' = [req EXCEPT ![p] =
                          ReturnTo([req[p] EXCEPT !.handler = @ + 1,
                                                  !.response = [status |-> 200, headers |-> <<>>]],
                                   req[p].depth)]
    /\ UNCHANGED <<now, redis, route, calls, cdTrig, win, replicas, posts, lookup>>

(* add_headers, lines 109-114: get_reset_time (zrange), then the appends *)
GetResetTime(p) ==
    /\ req[p].pc = "zrange"
    /\ LET k == RKey(p, "interaction")
           time_until_reset == get_reset_time(REDIS_zrange_top(redis, k), now)
           s == [req[p] EXCEPT !.reads = @ \cup {k},
                               !.response.headers =
                                   quota_headers(Bucket(p), @, req[p].rem, time_until_reset)]
       IN  req' = [req EXCEPT ![p] = ReturnTo(s, s.depth - 1)]
    /\ UNCHANGED <<now, redis, buckets, route, calls, cdTrig, win, replicas, posts, lookup>>

(* The response (or the exception) leaves the outermost caller *)
Finish(p) ==
    /\ req[p].pc = "done"
    /\ req' = [req EXCEPT ![p] = Idle]
    /\ UNCHANGED <<now, redis, buckets, route, calls, cdTrig, win, replicas, posts, lookup>>

(* A second passes; Redis expires the keys that are due *)
Tick(limit) ==
    /\ now < limit
    /\ now' = now + 1
    /\ redis' = Expire(redis, now + 1)
    /\ UNCHANGED <<buckets, route, req, calls, cdTrig, win, replicas, posts, lookup>>

Step(p, logged) ==
    \/ GetCooldown_get(p)
    \/ GetCooldown_ttl(p)
    \/ GetRemainingRequests_zrem(p)
    \/ GetRemainingRequests_zcard(p)
    \/ StartCooldown_set(p)
    \/ StartCooldown_expireat(p, logged)
    \/ RecordInteraction(p)
    \/ CallFunc(p)
    \/ GetResetTime(p)
    \/ Finish(p)

-----------------------------------------------------------------------------
(* Requests and bucket definitions drawn by the specifications *)

MemberIds == {1, 2}

MemberRequest(m) == [client |-> <<>>, state |-> [user_id |-> m, redis_pool |-> "pool"]]

AnonymousRequest == [client |-> <<>>, state |-> [redis_pool |-> "pool"]]

MemberRequests == {MemberRequest(m) : m \in MemberIds} \cup {AnonymousRequest}

MemberBucket(requests, time_period, cooldown, counter) ==
    BucketBase_init("MemberRedisBucket", requests, time_period, cooldown, counter)

SmallBuckets ==
    {<<MemberBucket(n, 2, 2, 0)>> : n \in 1 .. MaxRequests}

(* Concurrent requests to an endpoint guarded by one member bucket *)
Init ==
    \E bs \in SmallBuckets : InitWith(bs, <<1>>)

Next ==
    \/ \E p \in Procs : Arrive(p, MemberRequest(1), MaxCalls, FALSE)
    \/ \E p \in Procs : Step(p, FALSE)
    \/ Tick(MaxTime)

Spec == Init /\ [][Next]_vars

-----------------------------------------------------------------------------
(* Sequential calls: one worker, so a request arrives only after the       *)
(* previous response has left, and each call is served within the second   *)
(* it arrives in (the clock ticks between calls).  The bucket definitions  *)
(* drawn include the one of the documented scenario (requests=2,           *)
(* time_period=10, cooldown=5).                                            *)

ScenarioBucket == MemberBucket(2, 10, 5, 0)

SeqBuckets ==
    {<<MemberBucket(n, 3, 2, 0)>> : n \in 1 .. MaxRequests} \cup {<<ScenarioBucket>>}

SeqInit ==
    \E bs \in SeqBuckets : InitWith(bs, <<1>>)

SeqNext ==
    \/ \E r \in {MemberRequest(1), AnonymousRequest} : Arrive(1, r, SeqMaxCalls, TRUE)
    \/ Step(1, TRUE)
    \/ (req[1].pc = "idle" /\ Tick(SeqMaxTime))

SpecSeq == SeqInit /\ [][SeqNext]_vars

-----------------------------------------------------------------------------
(* Two guards on one endpoint: an IPRedisBucket (constructed first, bucket *)
(* #0) and a MemberRedisBucket (bucket #1), in either decorator order.     *)
(* The two-character hosts are the ones IPRedisBucket resolves a key for;  *)
(* the key "1" of host "10" prints like the member id 1.                   *)

IPBucket(requests, time_period, cooldown, counter) ==
    BucketBase_init("IPRedisBucket", requests, time_period, cooldown, counter)

ComposedBuckets == <<IPBucket(1, 2, 2, 0), MemberBucket(2, 2, 2, 1)>>

ComposedRoutes == {<<1, 2>>, <<2, 1>>}

Hosts == {<<"1", "0">>, <<":", ":">>, <<"1", "0", ".", "0", ".", "0", ".", "1">>}

ComposedRequests ==
    {[client |-> <<h, 443>>, state |-> [user_id |-> m, redis_pool |-> "pool"]] :
        h \in Hosts, m \in MemberIds}
    \cup {MemberRequest(1)}
    \cup {[client |-> << <<"1", "0">>, 443>>, state |-> [redis_pool |-> "pool"]]}

ComposedInit ==
    \E r \in ComposedRoutes : InitWith(ComposedBuckets, r)

ComposedNext ==
    \/ \E r \in ComposedRequests : Arrive(1, r, MaxCalls, FALSE)
    \/ Step(1, FALSE)
    \/ req[1].pc = "idle" /\ Tick(MaxTime)

SpecComposed == ComposedInit /\ [][ComposedNext]_vars

-----------------------------------------------------------------------------
(* A slow request: one worker, and the clock may tick between any two      *)
(* commands of the request.  The window lasts one second, so a record can  *)
(* expire, and stay stored, while the request that counted it is running.  *)

SlowBuckets ==
    {<<MemberBucket(n, 1, 2, 0)>> : n \in 1 .. MaxRequests}

SlowInit ==
    \E bs \in SlowBuckets : InitWith(bs, <<1>>)

SlowNext ==
    \/ Arrive(1, MemberRequest(1), MaxCalls, FALSE)
    \/ Step(1, FALSE)
    \/ Tick(MaxTime)

SpecSlow == SlowInit /\ [][SlowNext]_vars

-----------------------------------------------------------------------------
(* Bursts: two workers serve requests concurrently, each request within    *)
(* the second it arrives in (the clock ticks while no request is in        *)
(* flight), so that calls and the quiet periods between them are told      *)
(* apart by their arrival times.  The buckets have the window longer than  *)
(* the cooldown, and the cooldown longer than the window.                  *)

BurstMaxTime == 3    \* last clock value of the burst specification
BurstMaxCalls == 4   \* requests that arrive in a behaviour of bursts

BurstBuckets ==
    {<<MemberBucket(n, 2, 1, 0)>> : n \in 1 .. MaxRequests}
    \cup {<<MemberBucket(n, 1, 2, 0)>> : n \in 1 .. MaxRequests}

BurstInit ==
    \E bs \in BurstBuckets : InitWith(bs, <<1>>)

BurstNext ==
    \/ \E p \in Procs : Arrive(p, MemberRequest(1), BurstMaxCalls, TRUE)
    \/ \E p \in Procs : Step(p, TRUE)
    \/ (\A p \in Procs : req[p].pc = "idle") /\ Tick(BurstMaxTime)

SpecBurst == BurstInit /\ [][BurstNext]_vars

-----------------------------------------------------------------------------
(* Authentication in front of a member guard: JWTBearer is a dependency of *)
(* the route, so it runs before the decorated route function.  A token is  *)
(* the signed pair of a member id and a salt; the members table holds the  *)
(* salt of each member's current token.                                    *)

MemberTable ==
    [m \in MemberIds |->
        [member_id |-> m, key_salt |-> "salt-" \o ToString(m), is_admin |-> m = 1]]

(* crud.get_member: the row of the member, or none *)
get_member(member_id) ==
    IF member_id \in DOMAIN MemberTable THEN <<MemberTable[member_id]>> ELSE <<>>

(* _make_member_token: jwt.encode signs the payload with the server secret *)
jwt_encode(token_data) == [signed |-> "JWT_SECRET", payload |-> token_data]

(* jwt.decode: the payload of a token signed with the secret, else JWTError *)
jwt_decode(token) ==
    IF token.signed = "JWT_SECRET" THEN [raised |-> FALSE, data |-> token.payload]
    ELSE [raised |-> TRUE, data |-> <<>>]

(* Python attribute access on an object with the given attributes *)
GetAttr(obj, name) ==
    IF name \in DOMAIN obj THEN [raised |-> FALSE, val |-> obj[name]]
    ELSE [raised |-> TRUE, val |-> None]

(* validate_token, lines 44-59; token is <<>> for None *)
validate_token(token, needs_admin) ==
    IF token = <<>> THEN [raised |-> "HTTPException", member |-> <<>>]
    ELSE LET decoded == jwt_decode(token[1])
             member  == get_member(decoded.data.id)
         IN  IF decoded.raised THEN [raised |-> "HTTPException", member |-> <<>>]
             ELSE IF member = <<>> THEN [raised |-> "HTTPException", member |-> <<>>]
             ELSE IF GetAttr(member[1], "ket_salt").raised
                  THEN [raised |-> "AttributeError", member |-> <<>>]
             ELSE IF GetAttr(member[1], "ket_salt").val # decoded.data.salt
                  THEN [raised |-> "HTTPException", member |-> <<>>]
             ELSE IF needs_admin /\ ~member[1].is_admin
                  THEN [raised |-> "HTTPException", member |-> <<>>]
             ELSE [raised |-> "", member |-> member]

(* JWTBearer.__call__, lines 77-78: the identity is stored in the request *)
JWTBearer_attach(request, member) ==
    [request EXCEPT !.state =
        [member_id |-> member.member_id, is_admin |-> member.is_admin] @@ @]

(* JWTBearer.__call__: HTTPBearer (auto_error) raises 403 when the request *)
(* carries no bearer credentials.                                          *)
JWTBearer_call(request, require_admin) ==
    IF request.credentials = <<>> THEN [raised |-> "HTTPException", request |-> request]
    ELSE LET v == validate_token(request.credentials, require_admin)
         IN  IF v.raised # "" THEN [raised |-> v.raised, request |-> request]
             ELSE [raised |-> "", request |-> JWTBearer_attach(request, v.member[1])]

(* A request to a JWTBearer route decorated with the guards of `route` *)
Authenticate(p, r, limit) ==
    LET a == JWTBearer_call(r, FALSE)
    IN  IF a.raised = "" THEN Arrive(p, a.request, limit, FALSE)
        ELSE /\ req[p].pc = "idle"
             /\ \A q \in Procs : q < p => req[q].pc # "idle"
             /\ calls < limit
             /\ calls' = calls + 1
             /\ req' = [req EXCEPT ![p] =
                           [Idle EXCEPT !.request = r, !.pc = "done", !.error = a.raised,
                                        !.arr = calls + 1, !.t0 = now]]
             /\ UNCHANGED <<now, redis, buckets, route, cdTrig, win, replicas, posts, lookup>>

(* The tokens presented: the current token of a member, a token with a     *)
(* stale salt, a token of a deleted member, a token not signed by the      *)
(* server, and no token.                                                   *)
CurrentToken(m) == jwt_encode([id |-> m, salt |-> MemberTable[m].key_salt])

Tokens ==
    {CurrentToken(m) : m \in MemberIds}
    \cup {jwt_encode([id |-> 1, salt |-> "salt-0"]),
          jwt_encode([id |-> 3, salt |-> "salt-3"]),
          [signed |-> "other", payload |-> [id |-> 1, salt |-> "salt-1"]]}

AuthRequests ==
    {[client |-> <<>>, state |-> [redis_pool |-> "pool"], credentials |-> c] :
        c \in {<<t>> : t \in Tokens} \cup {<<>>}}

(* The credentials of the request are the current token of a member *)
ValidCredentials(request) ==
    \E m \in MemberIds : request.credentials = <<CurrentToken(m)>>

AuthInit == InitWith(<<MemberBucket(MaxRequests, 2, 2, 0)>>, <<1>>)

(* No request gets past validate_token (line 53), so the only steps are    *)
(* the dependency, the delivery of its error, and the clock.               *)
AuthNext ==
    \/ \E p \in Procs, r \in AuthRequests : Authenticate(p, r, MaxCalls)
    \/ \E p \in Procs : Finish(p)
    \/ Tick(MaxTime)

SpecAuth == AuthInit /\ [][AuthNext]_vars

-----------------------------------------------------------------------------
(* Server processes sharing one Redis.  Each process has its own class     *)
(* attribute BucketBase._bucket_counter and constructs the bucket          *)
(* definitions of the code it runs as it imports their modules; a restart  *)
(* starts the process, and its counter, afresh.                            *)

ReplicaIds == {1, 2}

BucketDefinitions ==
    {[name |-> "login", cls |-> "IPRedisBucket", requests |-> 1, time_period |-> 2, cooldown |-> 2],
     [name |-> "posts", cls |-> "MemberRedisBucket", requests |-> 2, time_period |-> 2, cooldown |-> 2],
     [name |-> "admin", cls |-> "MemberRedisBucket", requests |-> 1, time_period |-> 2, cooldown |-> 2]}

FreshProcess == [counter |-> 0, made |-> <<>>]

(* BucketBase.__init__ in process r for the definition d *)
Construct(r, d) ==
    /\ \A i \in DOMAIN replicas[r].made : replicas[r].made[i].definition # d.name
    /\ replicas' =
           [replicas EXCEPT ![r] =
               [counter |-> @.counter + 1,
                made    |-> Append(@.made,
                                   [definition |-> d.name,
                                    bucket |-> BucketBase_init(d.cls, d.requests, d.time_period,
                                                               d.cooldown, @.counter)])]]
    /\ UNCHANGED <<now, redis, buckets, route, req, calls, cdTrig, win, posts, lookup>>

(* The process is started again *)
Restart(r) ==
    /\ replicas[r] # FreshProcess
    /\ replicas' = [replicas EXCEPT ![r] = FreshProcess]
    /\ UNCHANGED <<now, redis, buckets, route, req, calls, cdTrig, win, posts, lookup>>

DeployInit ==
    /\ now = 0
    /\ redis = <<>>
    /\ buckets = <<>>
    /\ route = <<>>
    /\ req = [p \in Procs |-> Idle]
    /\ calls = 0
    /\ cdTrig = <<>>
    /\ win = <<>>
    /\ replicas = [r \in ReplicaIds |-> FreshProcess]
    /\ posts = <<>>
    /\ lookup = [p \in Procs |-> NoLookup]

DeployNext ==
    \/ \E r \in ReplicaIds, d \in BucketDefinitions : Construct(r, d)
    \/ \E r \in ReplicaIds : Restart(r)

SpecDeploy == DeployInit /\ [][DeployNext]_vars

-----------------------------------------------------------------------------
(* Store faults.  An awaited Redis command may raise (connection lost,     *)
(* timeout) instead of replying; a write that raises may or may not have   *)
(* been applied by the server.  handle_request, add_headers and caller     *)
(* catch nothing but OnCooldownError, so the exception leaves every caller *)
(* and no response is returned.                                            *)

WritePcs == {"zrem", "cd_set", "cd_expireat", "zadd"}
ReadPcs == {"cd_get", "cd_ttl", "zcard", "zrange"}

(* The store after the command worker p is about to issue *)
Applied(p) ==
    CASE req[p].pc = "zrem" ->
             REDIS_zremrangebyscore(redis, RKey(p, "interaction"), 0, now)
      [] req[p].pc = "cd_set" -> REDIS_set(redis, RKey(p, "cooldown"), 1)
      [] req[p].pc = "cd_expireat" ->
             REDIS_expireat(redis, RKey(p, "cooldown"), cooldown_expiry(Bucket(p), now), now)
      [] req[p].pc = "zadd" ->
             REDIS_zadd(redis, RKey(p, "interaction"), interaction_score(Bucket(p), now))
      [] OTHER -> redis

(* Faulty variant: the fault is answered like a cooldown *)
Raise_as_cooldown(s) == Reject([s EXCEPT !.error = "ConnectionError"], s.depth, 0)

(* The exception of the store client propagates out of the chain *)
Raise(s) ==
    [s EXCEPT !.pc = "done", !.depth = 0, !.error = "ConnectionError",
              !.response = NoResponse]

StoreFault(p, applied) ==
    /\ req[p].pc \in WritePcs \cup ReadPcs
    /\ applied => req[p].pc \in WritePcs
    /\ redis' = IF applied THEN Applied(p) ELSE redis
    /\ req' = [req EXCEPT ![p] = Raise(req[p])]
    /\ UNCHANGED <<now, buckets, route, calls, cdTrig, win, replicas, posts, lookup>>

FaultyNext ==
    \/ Arrive(1, MemberRequest(1), MaxCalls, FALSE)
    \/ Step(1, FALSE)
    \/ \E applied \in BOOLEAN : StoreFault(1, applied)
    \/ req[1].pc = "idle" /\ Tick(MaxTime)

SpecFaulty == Init /\ [][FaultyNext]_vars

-----------------------------------------------------------------------------
(* Posts: lookup_post (endpoints/user_posts.py, and its copy in            *)
(* utils/external_api.py) reads the posts table, falls back to the         *)
(* external API and stores what it fetched.  Each awaited call (the        *)
(* database read, the HTTP request, the insert) is one step; two workers   *)
(* run lookups concurrently on the one database.                           *)

PostIds == {1, 2, 3}

(* The posts the external API serves, as the JSON of GET /posts/{id} *)
ApiPosts ==
    [i \in {1, 2} |->
        [id |-> i, userId |-> 7, title |-> "api title", body |-> "api body"]]

(* httpx_client.get(f"{API_BASE_URL}/posts/{post_id}"): the API answers    *)
(* 200 with the post or 404, or fails with a server error.                 *)
API_get_post(post_id, healthy) ==
    IF ~healthy THEN [status_code |-> 500, json |-> <<>>]
    ELSE IF post_id \in DOMAIN ApiPosts
    THEN [status_code |-> 200, json |-> <<ApiPosts[post_id]>>]
    ELSE [status_code |-> 404, json |-> <<>>]

(* schemas.Post(id=post_data["id"], user_id=post_data["userId"], ...) and  *)
(* the models.Post made of the schema's dict: the row of the fetched post  *)
post_schema(post_data) ==
    [user_id |-> post_data.userId, id |-> post_data.id,
     title |-> post_data.title, body |-> post_data.body]

(* crud.get_post: the row of the id, or None (the empty sequence) *)
crud_get_post(table, id) ==
    IF id \in DOMAIN table THEN <<table[id]>> ELSE <<>>

(* Faulty variant: the row is returned but not committed *)
crud_add_post_transient(table, schema) ==
    [raised |-> "", table |-> table, db_model |-> <<schema>>]

(* crud.add_post with a schema that carries the id: the insert of a        *)
(* primary key that is already stored fails at commit.                     *)
crud_add_post(table, schema) ==
    IF schema.id \in DOMAIN table
    THEN [raised |-> "IntegrityError", table |-> table, db_model |-> <<>>]
    ELSE [raised |-> "",
          table |-> [i \in DOMAIN table \cup {schema.id} |->
                        IF i = schema.id THEN schema ELSE table[i]],
          db_model |-> <<schema>>]

(* lookup_post, lines 61-64: the post is in the database, or the API is next *)
LookupPost_get(p, post_id) ==
    /\ lookup[p].stage = "idle"
    /\ LET db_post == crud_get_post(posts, post_id)
           l == [NoLookup EXCEPT !.post_id = post_id]
       IN  lookup' = [lookup EXCEPT ![p] =
                         IF db_post # <<>> THEN [l EXCEPT !.stage = "done", !.found = db_post]
                         ELSE [l EXCEPT !.stage = "fetch"]]
    /\ UNCHANGED <<now, redis, buckets, route, req, calls, cdTrig, win, replicas, posts>>

(* lookup_post, lines 67-75: 404 returns None, raise_for_status raises on  *)
(* an error status, and a 200 carries the post                             *)
LookupPost_fetch(p, healthy) ==
    /\ lookup[p].stage = "fetch"
    /\ LET response == API_get_post(lookup[p].post_id, healthy)
           l == [lookup[p] EXCEPT !.fetches = @ + 1]
       IN  lookup' = [lookup EXCEPT ![p] =
                         IF response.status_code = 404 THEN [l EXCEPT !.stage = "done"]
                         ELSE IF response.status_code # 200
                         THEN [l EXCEPT !.stage = "done", !.failure = "HTTPStatusError"]
                         ELSE [l EXCEPT !.stage = "add", !.fetched = response.json]]
    /\ UNCHANGED <<now, redis, buckets, route, req, calls, cdTrig, win, replicas, posts>>

(* lookup_post, lines 76-84: the fetched post is stored and returned *)
LookupPost_add(p) ==
    /\ lookup[p].stage = "add"
    /\ LET r == crud_add_post(posts, post_schema(lookup[p].fetched[1]))
       IN  /\ posts' = r.table
           /\ lookup' = [lookup EXCEPT ![p].stage = "done", ![p].found = r.db_model,
                                       ![p].failure = r.raised]
    /\ UNCHANGED <<now, redis, buckets, route, req, calls, cdTrig, win, replicas>>

(* The result, or the exception, leaves lookup_post *)
LookupPost_return(p) ==
    /\ lookup[p].stage = "done"
    /\ lookup' = [lookup EXCEPT ![p] = NoLookup]
    /\ UNCHANGED <<now, redis, buckets, route, req, calls, cdTrig, win, replicas, posts>>

(* The database at start: empty, or holding posts created through the API  *)
(* of this program (POST /post), whose ids can be ids of the external API. *)
LocalPost(i) == [user_id |-> 1, id |-> i, title |-> "local title", body |-> "local body"]

InitialPosts == {<<>>} \cup {[i \in {k} |-> LocalPost(i)] : k \in {1, 3}}

PostsInit ==
    /\ now = 0
    /\ redis = <<>>
    /\ buckets = <<>>
    /\ route = <<>>
    /\ req = [p \in Procs |-> Idle]
    /\ calls = 0
    /\ cdTrig = <<>>
    /\ win = <<>>
    /\ replicas = <<>>
    /\ posts \in InitialPosts
    /\ lookup = [p \in Procs |-> NoLookup]

PostsNext ==
    \/ \E p \in Procs, post_id \in PostIds : LookupPost_get(p, post_id)
    \/ \E p \in Procs, healthy \in BOOLEAN : LookupPost_fetch(p, healthy)
    \/ \E p \in Procs : LookupPost_add(p)
    \/ \E p \in Procs : LookupPost_return(p)

SpecPosts == PostsInit /\ [][PostsNext]_vars

-----------------------------------------------------------------------------
(* Vocabulary of the properties *)

(* The values a response carries under a header name *)
HeaderValues(headers, name) ==
    {headers[i][2] : i \in {j \in DOMAIN headers : headers[j][1] = name}}

(* The outermost guard of the endpoint, and its keys for worker p's request *)
Outer == buckets[route[1]]
OuterInteraction(p) == get_redis_key(Outer, req[p].keys[1], "interaction")
OuterCooldown(p) == get_redis_key(Outer, req[p].keys[1], "cooldown")

(* Worker p holds the response of its request *)
Answered(p) == req[p].pc = "done" /\ req[p].error = ""
Allowed(p) == Answered(p) /\ req[p].response.status = 200
Rejected(p) == Answered(p) /\ req[p].response.status = 429

(* Some request is between finding the window exhausted and its rejection *)
Triggering ==
    \E p \in Procs : \/ req[p].pc \in {"cd_set", "cd_expireat"}
                     \/ req[p].pc \in {"cd_get", "cd_ttl"} /\ req[p].site = "trigger"

-----------------------------------------------------------------------------
(* C1 (SpecSeq): the k-th sequential call for a key since the key was      *)
(* fresh, k <= requests, answered within time_period of the first one, is  *)
(* allowed, runs the handler, and reports Requests-Reminding = requests - k.*)
C1_FirstCallsAllowed ==
    \A p \in Procs :
        (/\ Answered(p)
         /\ req[p].idx \in 1 .. Outer.requests
         /\ now < req[p].first + Outer.time_period)
        => /\ req[p].response.status = 200
           /\ req[p].handler = 1
           /\ HeaderValues(req[p].response.headers, "Requests-Reminding")
                  = {ToString(Outer.requests - req[p].idx)}

(* The last call of a full quota of two reports 0 remaining *)
C1_Witness ==
    \E p \in Procs :
        /\ Allowed(p)
        /\ Outer.requests = 2 /\ req[p].idx = 2
        /\ now < req[p].first + Outer.time_period
        /\ HeaderValues(req[p].response.headers, "Requests-Reminding") = {"0"}

(* C2 (SpecSeq): a call that arrives with `requests` unexpired records     *)
(* stored for its key and no cooldown flag, and is served before any of    *)
(* them expires, is answered 429 without the handler running, and the      *)
(* cooldown flag of the key is set when it returns.                        *)
C2_NextCallRejected ==
    \A p \in Procs :
        (/\ Answered(p)
         /\ req[p].pre.active >= Outer.requests
         /\ ~req[p].pre.cd
         /\ req[p].t0 = now)
        => /\ req[p].response.status = 429
           /\ req[p].handler = 0
           /\ OuterCooldown(p) \in DOMAIN redis
           /\ REDIS_ttl(redis, OuterCooldown(p), now) > 0

(* The (requests + 1)-th call of a window has been rejected *)
C2_Witness ==
    \E p \in Procs :
        /\ Rejected(p)
        /\ req[p].idx = Outer.requests + 1
        /\ req[p].pre.active = Outer.requests /\ ~req[p].pre.cd
        /\ OuterCooldown(p) \in DOMAIN redis

(* C3 (Spec): a call that finds the cooldown active at line 57             *)
(* (get_cooldown > 0) is rejected with that value at once: it has issued   *)
(* no write command (no prune, no record, no set or expireat of the flag)  *)
(* and its handler has not run.                                            *)
C3_CooldownCallWritesNothing ==
    \A p \in Procs :
        req[p].cd0 > 0
        => /\ Rejected(p)
           /\ req[p].exc = req[p].cd0
           /\ req[p].writes = {}
           /\ req[p].reads = {OuterCooldown(p)}
           /\ req[p].handler = 0

(* A call was rejected during a cooldown while the window holds records *)
C3_Witness ==
    \E p \in Procs :
        /\ Rejected(p) /\ req[p].cd0 > 0
        /\ OuterInteraction(p) \in DOMAIN redis

(* C4 (Spec): the unexpired interaction records of a key never exceed      *)
(* `requests`, except while a violating call is triggering a cooldown.     *)
C4_ActiveNeverExceedsRequests ==
    \A m \in MemberIds :
        ~Triggering
        => ActiveAt(redis, get_redis_key(Outer, m, "interaction"), now) <= Outer.requests

(* C5 (Spec): the handler runs at most once per request, and not at all    *)
(* for a request a guard rejected.                                         *)
C5_HandlerAtMostOnce ==
    \A p \in Procs :
        /\ req[p].handler <= 1
        /\ req[p].rejectedBy > 0 => req[p].handler = 0
        /\ Rejected(p) => req[p].handler = 0
        /\ Allowed(p) => req[p].handler = 1

(* One request was rejected and another one allowed *)
C5_Witness ==
    \E p, q \in Procs :
        /\ Rejected(p) /\ req[p].handler = 0
        /\ Allowed(q) /\ req[q].handler = 1

(* C6 (SpecSeq): a call that arrives after the cooldown of its key has     *)
(* expired, while the window still holds `requests` unexpired records, is  *)
(* rejected and starts a new cooldown of full duration.                    *)
C6_ExpiredCooldownFullWindow ==
    \A p \in Procs :
        (/\ Answered(p)
         /\ req[p].pre.trig >= 0 /\ ~req[p].pre.cd
         /\ req[p].pre.active >= Outer.requests)
        => /\ req[p].response.status = 429
           /\ req[p].handler = 0
           /\ req[p].exc = Outer.cooldown
           /\ OuterCooldown(p) \in DOMAIN redis
           /\ redis[OuterCooldown(p)].exp = req[p].t0 + Outer.cooldown
           /\ cdTrig[OuterCooldown(p)] = req[p].t0

(* The scenario requests=2, time_period=10, cooldown=5: calls at 0 and 1   *)
(* were allowed, the cooldown was triggered at 2, and the call at 8 is     *)
(* rejected with a cooldown until 13.                                      *)
C6_Witness ==
    \E p \in Procs :
        /\ Rejected(p)
        /\ Outer.requests = 2 /\ Outer.time_period = 10 /\ Outer.cooldown = 5
        /\ req[p].t0 = 8 /\ req[p].pre.trig = 2
        /\ redis[OuterInteraction(p)].members = (10 :> 1 @@ 11 :> 1)
        /\ redis[OuterCooldown(p)].exp = 13

(* C7 (SpecSeq): a rejection at time t of a key whose cooldown was         *)
(* triggered at t0 reports cooldown - (t - t0), in the exception and in    *)
(* the Cooldown-Reset header; the triggering call reports `cooldown`.      *)
C7_CooldownRemainingExact ==
    \A p \in Procs :
        Rejected(p)
        => /\ OuterCooldown(p) \in DOMAIN cdTrig
           /\ LET t0 == cdTrig[OuterCooldown(p)]
              IN  /\ t0 <= now /\ now < t0 + Outer.cooldown
                  /\ req[p].exc = Outer.cooldown - (now - t0)
                  /\ HeaderValues(req[p].response.headers, "Cooldown-Reset")
                         = {ToString(Outer.cooldown - (now - t0))}

(* The scenario: the cooldown triggered at 2 reports 1 to the call at 6 *)
C7_Witness ==
    \E p \in Procs :
        /\ Rejected(p)
        /\ Outer.requests = 2 /\ Outer.time_period = 10 /\ Outer.cooldown = 5
        /\ now = 6 /\ cdTrig[OuterCooldown(p)] = 2
        /\ HeaderValues(req[p].response.headers, "Cooldown-Reset") = {"1"}

(* C8 (Spec): of two rejected calls for one key, the one that arrived      *)
(* first reports a cooldown-remaining at least that of the other.  Stated  *)
(* for calls that arrive and are answered within the same second, which    *)
(* lie inside one cooldown window (a cooldown lasts at least a second).    *)
C8_CooldownRemainingNonIncreasing ==
    \A p, q \in Procs :
        (/\ Rejected(p) /\ Rejected(q)
         /\ req[p].keys[1] = req[q].keys[1]
         /\ req[p].arr < req[q].arr
         /\ req[p].t0 = now /\ req[q].t0 = now)
        => req[p].exc >= req[q].exc

-----------------------------------------------------------------------------
(* Composed guards *)

(* The keys bucket i takes from the requests of SpecComposed *)
BucketKeys(i) ==
    IF buckets[i].cls = "IPRedisBucket"
    THEN {h[1] : h \in {x \in Hosts : Len(x) = 2}}
    ELSE MemberIds

(* What store r holds for bucket i and key k under `name` *)
Stored(r, i, k, name) ==
    LET rk == get_redis_key(buckets[i], k, name)
    IN  IF rk \in DOMAIN r THEN <<r[rk]>> ELSE <<>>

(* The request of worker p was rejected by an IPRedisBucket *)
RejectedByIP(p) ==
    /\ Answered(p) /\ req[p].rejectedBy > 0
    /\ buckets[route[req[p].rejectedBy]].cls = "IPRedisBucket"

(* The request of worker p added a record to a MemberRedisBucket *)
RecordedMember(p) ==
    \E d \in req[p].recorded : buckets[route[d]].cls = "MemberRedisBucket"

(* C9 (SpecComposed): a step a request takes inside the guard of bucket b  *)
(* for key k leaves the interaction records and the cooldown flag of every *)
(* other (bucket, key) as they were; steps outside a guard leave the store *)
(* alone.                                                                  *)
C9_StoreNamespacedPerGuard ==
    [][\A p \in Procs :
          req'[p] # req[p]
          => IF req[p].depth = 0 THEN redis' = redis
             ELSE \A i \in DOMAIN buckets : \A k \in BucketKeys(i) :
                      (i # route[req[p].depth] \/ k # Key(p))
                      => /\ Stored(redis', i, k, "interaction")
                                = Stored(redis, i, k, "interaction")
                         /\ Stored(redis', i, k, "cooldown")
                                = Stored(redis, i, k, "cooldown")]_vars

(* The IP bucket is exhausted and on cooldown for key "1" while the member *)
(* bucket holds one record, of the two it allows, for member 1.            *)
C9_Witness ==
    /\ ActiveAt(redis, get_redis_key(buckets[1], "1", "interaction"), now)
           = buckets[1].requests
    /\ get_redis_key(buckets[1], "1", "cooldown") \in DOMAIN redis
    /\ ActiveAt(redis, get_redis_key(buckets[2], 1, "interaction"), now) = 1
    /\ get_redis_key(buckets[2], 1, "cooldown") \notin DOMAIN redis

(* C10 as stated (SpecComposed), for either decorator order: a request an  *)
(* IPRedisBucket rejected has added no record to the MemberRedisBucket.    *)
C10_IPRejectionRecordsNoMember ==
    \A p \in Procs : RejectedByIP(p) => ~RecordedMember(p)

(* C10 (SpecComposed), when the IPRedisBucket is the outer decorator: a    *)
(* request it rejected has added no record to the MemberRedisBucket, and   *)
(* has touched no key of it.                                               *)
C10_OuterIPRejectionRecordsNoMember ==
    \A p \in Procs :
        (RejectedByIP(p) /\ buckets[route[1]].cls = "IPRedisBucket")
        => /\ ~RecordedMember(p)
           /\ req[p].recorded = {}
           /\ req[p].reads \cup req[p].writes
                  \subseteq {OuterInteraction(p), OuterCooldown(p)}

(* The outer IPRedisBucket rejected a request of member 1 while the        *)
(* member's window holds the single record of the earlier, allowed call.   *)
C10_Witness ==
    \E p \in Procs :
        /\ RejectedByIP(p) /\ buckets[route[1]].cls = "IPRedisBucket"
        /\ req[p].request.state = MemberRequest(1).state
        /\ REDIS_zcard(redis, get_redis_key(buckets[2], 1, "interaction")) = 1

(* The Redis keys of the guards at depth 1 .. d of the chain, for the keys *)
(* worker p's request resolved                                             *)
GuardKeys(p, d) ==
    {get_redis_key(buckets[route[i]], req[p].keys[i], name) :
        i \in 1 .. d, name \in {"interaction", "cooldown"}}

(* C11 (SpecComposed): once the guard at depth d has rejected a request,   *)
(* no guard nested inside it is entered: the request has resolved no key   *)
(* beyond depth d, has read and written only keys of the guards down to d, *)
(* has recorded no interaction deeper than d, and its handler has not run. *)
C11_RejectionShortCircuits ==
    \A p \in Procs :
        req[p].rejectedBy > 0
        => LET d == req[p].rejectedBy
           IN  /\ Len(req[p].keys) = d
               /\ req[p].reads \cup req[p].writes \subseteq GuardKeys(p, d)
               /\ req[p].recorded \subseteq 1 .. (d - 1)
               /\ req[p].handler = 0

(* The outer MemberRedisBucket rejected the third request of member 1,     *)
(* from a host whose IP bucket, nested inside, holds nothing.              *)
C11_Witness ==
    \E p \in Procs :
        /\ Rejected(p) /\ req[p].rejectedBy = 1 /\ Len(route) = 2
        /\ buckets[route[1]].cls = "MemberRedisBucket"
        /\ req[p].request.client # <<>>
        /\ Len(req[p].request.client[1]) = 2
        /\ Stored(redis, 1, req[p].request.client[1][1], "interaction") = <<>>
        /\ Stored(redis, 1, req[p].request.client[1][1], "cooldown") = <<>>

(* The depth of the IPRedisBucket in the chain *)
IPDepth == CHOOSE d \in DOMAIN route : buckets[route[d]].cls = "IPRedisBucket"

(* Worker p's request has left the chain after reaching the IPRedisBucket: *)
(* the guards outside it resolved their keys and did not reject.           *)
ReachedIP(p) ==
    /\ req[p].pc = "done"
    /\ Len(req[p].keys) >= IPDepth - 1
    /\ req[p].rejectedBy \notin 1 .. (IPDepth - 1)

(* C12 (SpecComposed): a request without client address that reaches the   *)
(* IPRedisBucket leaves the chain with a ValueError and no response (no    *)
(* 429): the IP guard resolved no key, so none of its records or flags was *)
(* read or written (nothing at all when it is the outermost guard), and    *)
(* the handler has not run.                                                *)
C12_NoClientRaisesValueError ==
    \A p \in Procs :
        (ReachedIP(p) /\ req[p].request.client = <<>>)
        => /\ req[p].error = "ValueError"
           /\ req[p].response = NoResponse
           /\ req[p].rejectedBy = 0
           /\ Len(req[p].keys) = IPDepth - 1
           /\ req[p].reads \cup req[p].writes \subseteq GuardKeys(p, IPDepth - 1)
           /\ req[p].handler = 0

(* A request without client address has left an outermost IPRedisBucket    *)
(* with the error, while the store holds records of earlier requests.      *)
C12_Witness ==
    \E p \in Procs :
        /\ req[p].pc = "done" /\ req[p].request.client = <<>>
        /\ IPDepth = 1
        /\ req[p].error = "ValueError"
        /\ req[p].reads = {} /\ req[p].writes = {}
        /\ redis # <<>>

(* C13 (SpecAuth): for a request that presented the current token of a    *)
(* member, MemberRedisBucket.get_bucket_key, applied to the request state  *)
(* JWTBearer stores when it succeeds (lines 77-78), returns the id of that *)
(* member and does not raise.                                              *)
C13_AuthenticatedKeyIsMemberId ==
    \A p \in Procs :
        (/\ req[p].pc = "done"
         /\ "credentials" \in DOMAIN req[p].request
         /\ ValidCredentials(req[p].request))
        => LET m == req[p].request.credentials[1].payload.id
           IN  Member_get_bucket_key(JWTBearer_attach(req[p].request, MemberTable[m]))
                   = [raised |-> FALSE, key |-> m]

(* C14 (SpecDeploy): across the processes sharing the store, two buckets   *)
(* have the same bucket_no exactly when they are the same logical bucket   *)
(* definition.                                                             *)
C14_BucketNoUniqueAndStable ==
    \A r1, r2 \in ReplicaIds :
        \A i \in DOMAIN replicas[r1].made : \A j \in DOMAIN replicas[r2].made :
            (replicas[r1].made[i].bucket.bucket_no = replicas[r2].made[j].bucket.bucket_no)
            <=> (replicas[r1].made[i].definition = replicas[r2].made[j].definition)

(* C15 (SpecFaulty): a request whose store command raised during the       *)
(* admission decision (handle_request: cooldown read, prune and count,     *)
(* record, cooldown trigger) has left the chain with that exception: it    *)
(* issues no further command, no guard rejected it, it has no response (no *)
(* 429), and its handler has not run.                                      *)
C15_StoreFaultPropagates ==
    \A p \in Procs :
        (req[p].error = "ConnectionError" /\ req[p].site \in {"handle", "trigger"})
        => /\ req[p].pc = "done"
           /\ req[p].rejectedBy = 0
           /\ req[p].response = NoResponse
           /\ req[p].handler = 0

(* A command of start_cooldown raised with the set applied and no expiry   *)
(* written: the request ended with the exception, the flag has no expiry.  *)
C15_Witness ==
    \E p \in Procs :
        /\ req[p].pc = "done" /\ req[p].error = "ConnectionError"
        /\ req[p].site = "handle" /\ req[p].rem <= 0
        /\ get_redis_key(Outer, req[p].keys[1], "cooldown") \in DOMAIN redis
        /\ redis[get_redis_key(Outer, req[p].keys[1], "cooldown")].exp = -1

(* The header names of a response *)
HeaderNames(headers) == {headers[i][1] : i \in DOMAIN headers}

QuotaHeaders == {"Requests-Limit", "Requests-Period", "Requests-Reminding", "Requests-Reset"}
CooldownHeaders == {"Cooldown-Reset", "Ip-Cooldown-Reset"}

(* C16 (SpecComposed): a response carries quota headers only if the call   *)
(* was allowed and its handler ran; a 429 response carries cooldown        *)
(* headers only.                                                           *)
C16_QuotaHeadersOnlyWhenAllowed ==
    \A p \in Procs :
        Answered(p)
        => /\ HeaderNames(req[p].response.headers) \cap QuotaHeaders # {}
                  => (req[p].response.status = 200 /\ req[p].handler = 1)
           /\ req[p].response.status = 429
                  => HeaderNames(req[p].response.headers) \subseteq CooldownHeaders

(* The guard of class cls rejected worker p's request *)
RejectedByClass(p, cls) ==
    req[p].rejectedBy > 0 /\ buckets[route[req[p].rejectedBy]].cls = cls

(* C17 (SpecComposed): in every response, finished or under construction,  *)
(* no header name occurs twice; Ip-Cooldown-Reset is there exactly when    *)
(* the IPRedisBucket rejected the request and Cooldown-Reset exactly when  *)
(* the MemberRedisBucket did; nothing but these and the four quota headers *)
(* is written.                                                             *)
C17_HeaderNamesDisjoint ==
    \A p \in Procs :
        LET h == req[p].response.headers
        IN  /\ \A i, j \in DOMAIN h : h[i][1] = h[j][1] => i = j
            /\ HeaderNames(h) \subseteq QuotaHeaders \cup CooldownHeaders
            /\ "Ip-Cooldown-Reset" \in HeaderNames(h) <=> RejectedByClass(p, "IPRedisBucket")
            /\ "Cooldown-Reset" \in HeaderNames(h) <=> RejectedByClass(p, "MemberRedisBucket")

(* An allowed request passed both guards and carries each quota header     *)
(* once, written by the MemberRedisBucket.                                 *)
C17_Witness ==
    \E p \in Procs :
        /\ Allowed(p) /\ Len(req[p].keys) = 2
        /\ HeaderNames(req[p].response.headers) = QuotaHeaders
        /\ Len(req[p].response.headers) = 4
        /\ HeaderValues(req[p].response.headers, "Requests-Limit")
               = {ToString(buckets[2].requests)}

(* RedisBucketBase.get_remaining_requests as one call at time t on store r: *)
(* the store it leaves and the value it returns                             *)
get_remaining_requests(b, r, bucket_key, t) ==
    LET redis_key == get_redis_key(b, bucket_key, "interaction")
        pruned    == REDIS_zremrangebyscore(r, redis_key, 0, t)
    IN  [redis |-> pruned, remaining |-> b.requests - REDIS_zcard(pruned, redis_key)]

(* C18 (SpecSeq): in every reachable store and at its time, a second and a *)
(* third call of get_remaining_requests for a key return the value of the  *)
(* first and leave the store the first left.                               *)
C18_PruneAndCountIdempotent ==
    \A m \in MemberIds :
        LET once   == get_remaining_requests(Outer, redis, m, now)
            twice  == get_remaining_requests(Outer, once.redis, m, now)
            thrice == get_remaining_requests(Outer, twice.redis, m, now)
        IN  twice = once /\ thrice = once

(* The window of member 1 holds an expired record and a live one: the      *)
(* first call prunes the store and counts the live record.                 *)
C18_Witness ==
    LET once == get_remaining_requests(Outer, redis, 1, now)
    IN  /\ once.redis # redis
        /\ once.remaining = Outer.requests - 1
        /\ REDIS_zcard(redis, get_redis_key(Outer, 1, "interaction")) = 2

(* Workers p and q hold the answers of two requests for one key that both  *)
(* arrived in the current second and both read one remaining request at    *)
(* line 65.                                                                *)
BothSawLastSlot(p, q) ==
    /\ p # q
    /\ req[p].pc = "done" /\ req[q].pc = "done"
    /\ req[p].keys = req[q].keys /\ Len(req[p].keys) = 1
    /\ req[p].rem0 = 1 /\ req[q].rem0 = 1
    /\ req[p].t0 = now /\ req[q].t0 = now

(* C19 (Spec): two concurrent requests for one key that both read one      *)
(* remaining request are both allowed, both handlers run, and the key is   *)
(* left with requests + 1 unexpired records.                               *)
C19_BothAdmittedOnLastSlot ==
    \A p, q \in Procs :
        BothSawLastSlot(p, q)
        => /\ Allowed(p) /\ Allowed(q)
           /\ req[p].handler = 1 /\ req[q].handler = 1
           /\ ActiveAt(redis, OuterInteraction(p), now) = Outer.requests + 1

(* The interleaving exists, for a bucket of two requests per period: one   *)
(* earlier record, then both requests counted before either recorded.      *)
C19_Witness ==
    \E p, q \in Procs :
        /\ BothSawLastSlot(p, q)
        /\ Outer.requests = 2
        /\ Allowed(p) /\ Allowed(q)
        /\ ActiveAt(redis, OuterInteraction(p), now) = 3

(* C20 (Spec): every value get_cooldown has returned to a request, at line *)
(* 57 (cd0) or at line 73 (exc, the value raised to the caller), is 0 or a *)
(* positive number of seconds, never negative.                             *)
C20_GetCooldownNeverNegative ==
    \A p \in Procs : req[p].cd0 >= 0 /\ req[p].exc >= 0

-----------------------------------------------------------------------------
(* Interaction records *)

(* The interaction records store r holds under redis key rk, as a bag      *)
(* expiry -> number of records, and the number of them that expire at x    *)
Records(r, rk) == IF rk \in DOMAIN r THEN r[rk].members ELSE <<>>
CountAt(r, rk, x) == IF x \in DOMAIN Records(r, rk) THEN Records(r, rk)[x] ELSE 0

(* The expiries stored under rk before or after the step *)
Expiries(rk) == DOMAIN Records(redis, rk) \cup DOMAIN Records(redis', rk)

(* C21 (SpecComposed): the step of a request that passes a guard (line 80) *)
(* adds exactly one record, expiring at now + time_period, to the window   *)
(* of that guard and key and changes no other window; no other step of a   *)
(* request adds a record anywhere.  The handler has run only for requests  *)
(* that recorded in every guard of the chain, and a guard that rejected a  *)
(* request holds no record of it.                                          *)
C21_AllowedCallRecordsOnce ==
    [][\A p \in Procs :
          /\ req'[p] # req[p]
             => \A i \in DOMAIN buckets : \A k \in BucketKeys(i) :
                    LET rk  == get_redis_key(buckets[i], k, "interaction")
                        own == /\ req[p].pc = "zadd"
                               /\ i = route[req[p].depth] /\ k = Key(p)
                    IN  \A x \in Expiries(rk) :
                            IF own /\ x = now + buckets[i].time_period
                            THEN CountAt(redis', rk, x) = CountAt(redis, rk, x) + 1
                            ELSE CountAt(redis', rk, x) <= CountAt(redis, rk, x)
          /\ req'[p].handler > 0 => req'[p].recorded = DOMAIN route
          /\ req'[p].rejectedBy > 0 => req'[p].rejectedBy \notin req'[p].recorded
          /\ req'[p].recorded \ req[p].recorded # {}
             => req[p].pc = "zadd" /\ req'[p].recorded = req[p].recorded \cup {req[p].depth}
      ]_vars

(* A request passed both guards within a second and ran the handler: each  *)
(* guard's window holds a record of it expiring at now + time_period.      *)
C21_Witness ==
    \E p \in Procs :
        /\ Allowed(p) /\ req[p].handler = 1 /\ req[p].t0 = now
        /\ Len(route) = 2 /\ req[p].recorded = DOMAIN route
        /\ \A d \in DOMAIN route :
               CountAt(redis, get_redis_key(buckets[route[d]], req[p].keys[d], "interaction"),
                       now + buckets[route[d]].time_period) >= 1

(* C22 (SpecSeq): the prune of get_remaining_requests (line 202) at time   *)
(* now removes every record of the key that expires at or before now and   *)
(* keeps the others as they are, and the value returned (lines 205-206) is *)
(* requests minus the number of records kept, all of which expire after    *)
(* now.                                                                    *)
C22_PruneRemovesExpiredOnly ==
    [][\A p \in Procs :
          /\ (req[p].pc = "zrem" /\ req'[p].pc = "zcard")
             => \A x \in Expiries(RKey(p, "interaction")) :
                    CountAt(redis', RKey(p, "interaction"), x)
                        = IF x <= now THEN 0 ELSE CountAt(redis, RKey(p, "interaction"), x)
          /\ (req[p].pc = "zcard" /\ req'[p] # req[p])
             => /\ redis' = redis
                /\ \A x \in DOMAIN Records(redis, RKey(p, "interaction")) : x > now
                /\ req'[p].rem = Bucket(p).requests
                                     - ActiveAt(redis, RKey(p, "interaction"), now)
      ]_vars

(* The second call for a key arrives in the very second the record of the  *)
(* first one expires (first + time_period = now): the record was stored at *)
(* arrival, the prune removed it, and the call counts a full quota.        *)
C22_Witness ==
    \E p \in Procs :
        /\ req[p].pc = "zadd" /\ req[p].t0 = now
        /\ req[p].idx = 2 /\ req[p].first + Outer.time_period = now
        /\ req[p].pre.stored = 1 /\ req[p].pre.active = 0
        /\ req[p].rem = Outer.requests
        /\ OuterInteraction(p) \notin DOMAIN redis

(* C23 (SpecSlow): the Requests-Reset value that add_headers takes from    *)
(* get_reset_time at time now is E - now when the largest expiry E among   *)
(* the records stored for the key is later than now, and 0 when E <= now   *)
(* (records expired but not pruned) or when no record is stored.           *)
C23_ResetTimeClamped ==
    [][\A p \in Procs :
          (req[p].pc = "zrange" /\ req'[p] # req[p])
          => LET rec == Records(redis, RKey(p, "interaction"))
                 E   == SetMax(DOMAIN rec)
                 expected == IF DOMAIN rec = {} THEN 0
                             ELSE IF E > now THEN E - now ELSE 0
             IN  /\ expected >= 0
                 /\ HeaderValues(req'[p].response.headers, "Requests-Reset")
                        = {ToString(expected)}
      ]_vars

(* The response reports 0 while the only record stored for the key expired *)
(* a second ago.                                                           *)
C23_Witness ==
    \E p \in Procs :
        /\ Allowed(p)
        /\ HeaderValues(req[p].response.headers, "Requests-Reset") = {"0"}
        /\ OuterInteraction(p) \in DOMAIN redis
        /\ SetMax(DOMAIN redis[OuterInteraction(p)].members) < now

(* The host of an address as one string (hosts are kept as their characters) *)
RECURSIVE HostString(_)
HostString(host) ==
    IF host = <<>> THEN "" ELSE Head(host) \o HostString(Tail(host))

(* C24 (SpecComposed): a request with client address metadata that reaches *)
(* the IPRedisBucket gets past get_bucket_key without an error, and the    *)
(* key the guard resolved is the host address of the client.               *)
C24_ClientAddressIsKey ==
    \A p \in Procs :
        (ReachedIP(p) /\ req[p].request.client # <<>>)
        => /\ req[p].error # "ValueError"
           /\ Len(req[p].keys) >= IPDepth
           /\ req[p].keys[IPDepth] = HostString(req[p].request.client[1])

(* The number of requests the workers can hold in flight at one time *)
Concurrency == Cardinality(Procs)

(* C25 (Spec): with at most K = Concurrency requests in flight, a key      *)
(* never holds more than requests + K - 1 unexpired records, the pending   *)
(* inserts of the requests that passed line 66 included.                   *)
C25_OvershootBoundedByConcurrency ==
    \A m \in MemberIds :
        LET rk == get_redis_key(Outer, m, "interaction")
            pending == {p \in Procs : req[p].pc = "zadd" /\ Key(p) = m}
        IN  ActiveAt(redis, rk, now) + Cardinality(pending)
                <= Outer.requests + Concurrency - 1

(* The bound is reached: with two workers, a key of a bucket of two        *)
(* requests per period holds three unexpired records.                      *)
C25_Witness ==
    \E m \in MemberIds :
        /\ Outer.requests = 2
        /\ ActiveAt(redis, get_redis_key(Outer, m, "interaction"), now)
               = Outer.requests + Concurrency - 1
        /\ \A p \in Procs : req[p].pc \in {"call", "zrem", "zcard", "zrange", "done"}

(* C26 (Spec): the Requests-Reminding value on the response of an allowed  *)
(* call is within 0 .. requests - 1.  Stated for calls answered within the *)
(* second they arrived in, whose own record is still unexpired when        *)
(* add_headers counts the window.                                          *)
C26_RemainingHeaderInRange ==
    \A p \in Procs :
        (Allowed(p) /\ req[p].t0 = now)
        => HeaderValues(req[p].response.headers, "Requests-Reminding")
               \subseteq {ToString(v) : v \in 0 .. (Outer.requests - 1)}

(* C27 (Spec): the OnCooldownError that rejected a request carries a       *)
(* remaining value of at least 1, whether it was raised at line 63 or at   *)
(* line 74.  Stated for requests answered within the second they arrived   *)
(* in, so that no cooldown flag expires while the request runs.            *)
C27_RejectionCarriesPositive ==
    \A p \in Procs :
        (Rejected(p) /\ req[p].t0 = now)
        => /\ req[p].exc >= 1
           /\ HeaderValues(req[p].response.headers, "Cooldown-Reset")
                  \subseteq {ToString(v) : v \in 1 .. Outer.cooldown}

(* The quiet period of a bucket: max(time_period, cooldown) *)
QuietPeriod(b) == Max(b.time_period, b.cooldown)

(* Worker p holds the answer to the latest call for its key, which arrived *)
(* at least a quiet period after the call before it.                       *)
AfterQuiet(p) ==
    /\ Answered(p) /\ req[p].arr = calls
    /\ win[OuterInteraction(p)].prev >= 0
    /\ win[OuterInteraction(p)].prev + QuietPeriod(Outer) <= req[p].t0

(* C28 (SpecBurst): a call that arrives max(time_period, cooldown) seconds *)
(* or more after the previous call for its key is allowed, runs the        *)
(* handler and reports Requests-Reminding = requests - 1, whatever calls,  *)
(* concurrent ones included, came before the quiet period.                 *)
C28_QuietPeriodResetsKey ==
    \A p \in Procs :
        AfterQuiet(p)
        => /\ req[p].response.status = 200
           /\ req[p].handler = 1
           /\ HeaderValues(req[p].response.headers, "Requests-Reminding")
                  = {ToString(Outer.requests - 1)}

(* Concurrent calls overshot the quota (more than `requests` records are   *)
(* stored when the call arrives) and a cooldown was triggered; the call    *)
(* that arrives exactly a quiet period after the last of them is allowed.  *)
C28_Witness ==
    \E p \in Procs :
        /\ AfterQuiet(p) /\ Allowed(p)
        /\ req[p].arr = BurstMaxCalls
        /\ req[p].pre.stored > Outer.requests
        /\ req[p].pre.trig >= 0
        /\ win[OuterInteraction(p)].prev + QuietPeriod(Outer) = req[p].t0

(* C29 (SpecAuth): for a request that presented a token, validate_token    *)
(* either returns or raises the 403 HTTPException; it returns the member   *)
(* when the token is the one last issued for the member (its salt is the   *)
(* member's key_salt), and raises the 403 for every other token (a         *)
(* rotated-out salt, an unknown member, a foreign signature).              *)
C29_TokenRotation ==
    \A p \in Procs :
        (/\ req[p].pc = "done"
         /\ "credentials" \in DOMAIN req[p].request
         /\ req[p].request.credentials # <<>>)
        => LET v == validate_token(req[p].request.credentials, FALSE)
           IN  /\ v.raised \in {"", "HTTPException"}
               /\ req[p].error \in {"", "HTTPException", "ValueError"}
               /\ IF ValidCredentials(req[p].request)
                  THEN /\ v.raised = ""
                       /\ v.member = <<MemberTable[req[p].request.credentials[1].payload.id]>>
                  ELSE v.raised = "HTTPException"

(* C30 (SpecPosts): a lookup_post whose post is in the database returns    *)
(* that row without an HTTP request and leaves the table as it is; one     *)
(* that fetched the post from the API leaves it stored under its id (and   *)
(* returns the stored row when its own insert succeeded); a 404 returns    *)
(* None and leaves the table as it is; and no step removes or changes a    *)
(* stored post, so every later lookup of a stored id is served from the    *)
(* database.                                                               *)
C30_LookupPostReadThrough ==
    [][\A p \in Procs :
          LET l == lookup[p]
              n == lookup'[p]
          IN  /\ (l.stage = "idle" /\ n.stage # "idle")
                 => /\ posts' = posts
                    /\ IF n.post_id \in DOMAIN posts
                       THEN /\ n.stage = "done" /\ n.failure = ""
                            /\ n.found = <<posts[n.post_id]>>
                            /\ n.fetches = 0
                       ELSE n.stage = "fetch"
              /\ (l.stage = "fetch" /\ n.stage # "fetch")
                 => /\ posts' = posts
                    /\ (n.failure = "" /\ l.post_id \notin DOMAIN ApiPosts)
                       => (n.stage = "done" /\ n.found = <<>>)
              /\ (l.stage = "add" /\ n.stage = "done")
                 => /\ l.post_id \in DOMAIN posts'
                    /\ n.failure = ""
                       => /\ n.found = <<posts'[l.post_id]>>
                          /\ posts'[l.post_id] = post_schema(ApiPosts[l.post_id])
              /\ \A i \in DOMAIN posts : i \in DOMAIN posts' /\ posts'[i] = posts[i]
      ]_vars

(* A lookup was served, without an HTTP request, the row that an earlier   *)
(* lookup fetched from the API and stored.                                 *)
C30_Witness ==
    \E p \in Procs :
        /\ lookup[p].stage = "done" /\ lookup[p].fetches = 0
        /\ lookup[p].post_id \in DOMAIN ApiPosts
        /\ lookup[p].found = <<post_schema(ApiPosts[lookup[p].post_id])>>
        /\ posts[lookup[p].post_id] = post_schema(ApiPosts[lookup[p].post_id])

=============================================================================
